---- MODULE Spec2Model ----
(***************************************************************************)
(* Model of the client-side dynamic-UI pipeline of agent-ui-sdk:           *)
(*   - LoadExternalComponent.tsx : identity computation, the dedup         *)
(*     registry renderedComponents, and the fetch/render effect;           *)
(*   - useUIStream.tsx : the event-source subscription with reconnect      *)
(*     backoff and the reconciler of the component collection.             *)
(*   - preload.ts : injection of a namespace's bundle script.              *)
(* The specifications share the variables: SpecIdentity (the pure identity *)
(* function), SpecLoader (loader instances), SpecStream (the stream hook,  *)
(* React rendering after every handler), SpecBatch (the stream hook with   *)
(* React's queue of pending state updaters) and SpecPreload (preload.ts).  *)
(***************************************************************************)
EXTENDS Integers, Sequences, FiniteSets, TLC

VARIABLES
    \* ---- identity computation (LoadExternalComponent.tsx:41-68) ----
    idIn1, idIn2,        \* two payloads handed to the identity computation
    idOut1, idOut2,      \* their componentId, once computed
    \* ---- loader (LoadExternalComponent.tsx) ----
    renderedComponents,  \* module-level Set<string> of registered identities
    inst,                \* the loader instances (one per mounted element)
    fetchLog,            \* every fetch issued so far, with its settlement
    shadowRoots,         \* window.__SIDD_SHADOW_ROOTS__: shadowRootId -> root
    \* ---- stream hook (useUIStream.tsx) ----
    components,          \* useState: ordered collection of descriptors
    connected,           \* useState: boolean
    error,               \* useState: string | null
    reconnectAttempts,   \* useRef: number
    sources,             \* the EventSource objects that are not garbage
    timers,              \* pending setTimeout callbacks
    hook,                \* the hook's mount status and (apiUrl, sessionId)
    failsSinceOpen,      \* history: channel failures since the last open
    subFailed,           \* history: the current subscription has had a channel failure
    step,                \* history: the handler that ran last, with its input
    rendered,            \* the collection the hook returned at its last render
    queue,               \* React: updaters of setComponents not yet processed
    \* ---- preload (preload.ts) ----
    hasWindow,           \* typeof window !== 'undefined'
    headScripts,         \* the script elements appended to document.head
    preloadCalls         \* history: the script URL of every preloadUIBundle call

identityVars == <<idIn1, idIn2, idOut1, idOut2>>
loaderVars == <<renderedComponents, inst, fetchLog, shadowRoots>>
streamVars == <<components, connected, error, reconnectAttempts, sources,
                timers, hook, failsSinceOpen, subFailed, step, rendered, queue>>
preloadVars == <<hasWindow, headScripts, preloadCalls>>
vars == <<identityVars, loaderVars, streamVars, preloadVars>>

\* ------------------------------------------------------------------------
\* Bounds of the model
\* ------------------------------------------------------------------------
MaxInst == 2
MaxFetches == 3
MaxAttempts == 6
MaxVal == 2
MaxBatch == 2
MaxPreloads == 3

\* ------------------------------------------------------------------------
\* Values
\* ------------------------------------------------------------------------
\* JavaScript's undefined, for a string-valued field that is absent.
NoVal == "<undefined>"
\* JavaScript's null, for the error state.
Null == "<null>"

\* Falsy(x): !x for a string-or-undefined field ("" and undefined are falsy).
Falsy(x) == x = NoVal \/ x = ""

\* Keys in the order String.prototype comparison gives them ("a" < "b").
KeyOrder == <<"a", "b">>
Keys == {KeyOrder[i] : i \in 1..Len(KeyOrder)}

\* A parameter value: a number, or a nested object given by its entries in
\* insertion order (its own values being numbers).
Num(n) == [t |-> "num", n |-> n, o |-> <<>>]
Obj(entries) == [t |-> "obj", n |-> 0, o |-> entries]
NestedVals == { Obj(<<<<"a", 1>>, <<"b", 2>>>>), Obj(<<<<"b", 2>>, <<"a", 1>>>>) }
Vals == {Num(n) : n \in 1..MaxVal} \cup NestedVals
Rank(k) == CHOOSE i \in 1..Len(KeyOrder) : KeyOrder[i] = k

\* A parameter object is the sequence of its <<key, value>> entries in
\* insertion order (the order Object.keys reports), keys pairwise different.
IsProps(p) == \A i, j \in 1..Len(p) : p[i][1] = p[j][1] => i = j
AllProps == {p \in UNION {[1..n -> Keys \X Vals] : n \in 0..Len(KeyOrder)} : IsProps(p)}

ObjectKeys(p) == [i \in 1..Len(p) |-> p[i][1]]
HasKey(p, k) == \E i \in 1..Len(p) : p[i][1] = k
Get(p, k) == p[CHOOSE i \in 1..Len(p) : p[i][1] = k][2]

\* obj[key] = value on a plain object: overwrite in place, or append the key.
SetKey(p, k, v) ==
    IF HasKey(p, k)
    THEN [i \in 1..Len(p) |-> IF p[i][1] = k THEN <<k, v>> ELSE p[i]]
    ELSE Append(p, <<k, v>>)

\* { ...a, ...b } : a's entries, then each entry of b assigned in b's order.
RECURSIVE AssignAll(_, _)
AssignAll(acc, b) ==
    IF b = <<>> THEN acc
    ELSE AssignAll(SetKey(acc, Head(b)[1], Head(b)[2]), Tail(b))
Spread(a, b) == AssignAll(a, b)

\* ------------------------------------------------------------------------
\* Identity (LoadExternalComponent.tsx:41-50, 66-68)
\* ------------------------------------------------------------------------
\* Array.prototype.sort() on the key strings: insertion sort by code unit.
RECURSIVE InsertSorted(_, _)
InsertSorted(k, s) ==
    IF s = <<>> THEN <<k>>
    ELSE IF Rank(k) <= Rank(Head(s)) THEN <<k>> \o s
    ELSE <<Head(s)>> \o InsertSorted(k, Tail(s))
RECURSIVE SortKeys(_)
SortKeys(s) == IF s = <<>> THEN <<>> ELSE InsertSorted(Head(s), SortKeys(Tail(s)))

\* .reduce((acc, key) => { acc[key] = props[key]; return acc }, {})
RECURSIVE ReduceInto(_, _, _)
ReduceInto(acc, ks, props) ==
    IF ks = <<>> THEN acc
    ELSE ReduceInto(SetKey(acc, Head(ks), Get(props, Head(ks))), Tail(ks), props)

\* A mutant of normalizeProps: the keys are copied without sorting.
normalizeProps_unsorted(props) == ReduceInto(<<>>, ObjectKeys(props), props)

\* normalizeProps: the parameters modelled are always objects, so the
\* early return for a non-object (line 43) is never taken. Only the keys of
\* props itself are sorted: a nested object is copied as it is.
normalizeProps(props) == ReduceInto(<<>>, SortKeys(ObjectKeys(props)), props)

\* JSON.stringify, as the string of its tokens: entries are written in the
\* object's own key order, a nested object included.
RECURSIVE StringifyInner(_)
StringifyInner(o) ==
    IF o = <<>> THEN <<>>
    ELSE <<"\"", Head(o)[1], "\"", ":", ToString(Head(o)[2])>>
         \o (IF Tail(o) = <<>> THEN <<>> ELSE <<",">>)
         \o StringifyInner(Tail(o))
StringifyValue(v) ==
    IF v.t = "num" THEN <<ToString(v.n)>>
    ELSE <<"{">> \o StringifyInner(v.o) \o <<"}">>
RECURSIVE StringifyEntries(_)
StringifyEntries(p) ==
    IF p = <<>> THEN <<>>
    ELSE <<"\"", Head(p)[1], "\"", ":">> \o StringifyValue(Head(p)[2])
         \o (IF Tail(p) = <<>> THEN <<>> ELSE <<",">>)
         \o StringifyEntries(Tail(p))
JSONstringify(p) == <<"{">> \o StringifyEntries(p) \o <<"}">>

\* `${x}` for a string-or-undefined value.
Interp(x) == IF x = NoVal THEN "undefined" ELSE x

\* componentId = `${graph_name}:${component_name}:${JSON.stringify(normalizedProps)}`
componentId(payload) ==
    <<Interp(payload.graph_name), ":", Interp(payload.component_name), ":">>
    \o JSONstringify(normalizeProps(payload.props))

Payload(g, c, p) == [graph_name |-> g, component_name |-> c, props |-> p]

\* Same entries as a mapping, whatever the insertion order of its keys
\* (a nested object counts as the value it is, entry order included).
SameEntries(p, q) ==
    /\ Len(p) = Len(q)
    /\ \A k \in Keys : HasKey(p, k) = HasKey(q, k)
    /\ \A k \in Keys : HasKey(p, k) => Get(p, k) = Get(q, k)

IdGraphs == {"weather_app", "trading_bot"}
IdComponents == {"weather"}
NoId == <<>>

\* ------------------------------------------------------------------------
\* Loader (LoadExternalComponent.tsx)
\* ------------------------------------------------------------------------
\* The payloads handed to loader instances: two identities. (Payloads that
\* differ in the insertion order of their keys only have one identity; the
\* identity specification covers them.)
LoaderPayloads ==
    { Payload("weather_app", "weather", <<<<"b", Num(2)>>, <<"a", Num(1)>>>>),
      Payload("weather_app", "weather", <<<<"a", Num(2)>>>>) }
DummyPayload == Payload(NoVal, NoVal, <<>>)

Instances == 1..MaxInst

\* What the shadow root of an instance shows.
EmptyRoot == [kind |-> "none", of |-> NoId, sid |-> 0, html |-> <<>>]
LoadingRoot(sid) == [kind |-> "loading", of |-> NoId, sid |-> sid, html |-> <<"Loading">>]
HtmlRoot(cid, sid, html) == [kind |-> "html", of |-> cid, sid |-> sid, html |-> html]
\* Lines 162-165: the error box with the message in it.
ErrorRoot(cid, sid, errorMsg) ==
    [kind |-> "error", of |-> cid, sid |-> sid,
     html |-> <<"Error loading UI component:", errorMsg>>]

\* Line 93: the id generated for the shadow root by an effect run; the
\* random suffix is the number of the run.
ShadowRootId(n) == "sidd-shadow-" \o ToString(n)

\* A response text is a sequence of pieces, the placeholder being one.
Placeholder == "{{shadowRootId}}"
\* The fragment the server renders for a request: it depends on the
\* request body ({name, props}, line 122) only.
ServerFragment(payload) ==
    IF Len(payload.props) > 1
    THEN <<"<div id=", Placeholder, "></div><script>mount(", Placeholder, ")</script>">>
    ELSE <<"<script>mount(", Placeholder, ")</script>">>

\* What a fetch settles with: a rejection, or a response.
NoResult == [kind |-> "none", status |-> 0, statusText |-> "", text |-> <<>>, message |-> ""]
NetworkError == [NoResult EXCEPT !.kind = "error", !.message = "Failed to fetch"]
HttpResponse(status, statusText, text) ==
    [kind |-> "response", status |-> status, statusText |-> statusText,
     text |-> text, message |-> ""]
FetchResults(payload) ==
    { NetworkError,
      HttpResponse(200, "OK", ServerFragment(payload)),
      HttpResponse(500, "Internal Server Error", <<"Internal Server Error">>) }

\* A mutant of ResOk: the status is not looked at.
ResOk_always(res) == TRUE

\* res.ok (line 125)
ResOk(res) == res.status \in 200..299

\* The promise chain reaches the second then (lines 130-155).
Fulfils(res) == res.kind = "response" /\ ResOk(res)

\* err.message of what the catch receives (lines 126, 156).
Rejection(res) ==
    IF res.kind = "response"
    THEN "HTTP " \o ToString(res.status) \o ": " \o res.statusText
    ELSE res.message

\* Line 158: err.message || 'Unknown error'
ErrorMsg(message) == IF message = "" THEN "Unknown error" ELSE message

\* A mutant of ReplaceAll: only the first placeholder is replaced.
RECURSIVE ReplaceAll_first(_, _)
ReplaceAll_first(text, id) ==
    IF text = <<>> THEN <<>>
    ELSE IF Head(text) = Placeholder THEN <<id>> \o Tail(text)
    ELSE <<Head(text)>> \o ReplaceAll_first(Tail(text), id)

\* Line 134: htmlFragment.replace(/\{\{shadowRootId\}\}/g, shadowRootId)
RECURSIVE ReplaceAll(_, _)
ReplaceAll(text, id) ==
    IF text = <<>> THEN <<>>
    ELSE <<IF Head(text) = Placeholder THEN id ELSE Head(text)>>
         \o ReplaceAll(Tail(text), id)

UnmountedInst ==
    [phase |-> "unmounted", payload |-> DummyPayload, cid |-> NoId,
     shouldRender |-> FALSE, loading |-> TRUE, error |-> Null,
     root |-> EmptyRoot, seen |-> "none", replayed |-> FALSE]

\* tryRegisterComponent: the value returned, and the registry afterwards.
tryRegisterResult(reg, cid) == cid \notin reg
tryRegisterSet(reg, cid) == reg \cup {cid}

FetchesOf(cid) == {k \in 1..Len(fetchLog) : fetchLog[k].cid = cid}
PendingOf(cid) == {k \in FetchesOf(cid) : fetchLog[k].status = "pending"}
SettledOf(cid) == {k \in FetchesOf(cid) : fetchLog[k].status # "pending"}
OkOf(cid) == {k \in FetchesOf(cid) : fetchLog[k].status = "ok"}
FetchCount(cid) == Cardinality(FetchesOf(cid))

\* History kept with an instance: what was known of its identity when it
\* was mounted ("unsettled": no fetch for it had settled; "ok": a fetch for
\* it had resolved; "failed": fetches had settled, none successfully), or
\* "changed" once its identity has been changed in place.
SeenAtMount(cid) ==
    IF OkOf(cid) # {} THEN "ok"
    ELSE IF SettledOf(cid) # {} THEN "failed"
    ELSE "unsettled"

\* Lines 100-101: __SIDD_SHADOW_ROOTS__.set(shadowRootId, root); the root is
\* named by the effect run that obtained it.
RegisterRoot(reg, id, root) ==
    {e \in reg : e.id # id} \cup {[id |-> id, root |-> root]}

\* The shadowRootIds generated by the effect runs of instance i.
RootIdsOf(log, i) == {ShadowRootId(k) : k \in {j \in 1..Len(log) : log[j].inst = i}}

\* A mutant of CleanupRegistry: the cleanup removes the instance's entries.
CleanupRegistry_unregisters(reg, ids) == {e \in reg : e.id \notin ids}

\* The registry after the effect's cleanup (lines 173-177): it does nothing.
CleanupRegistry(reg, ids) == reg

\* A mutant of DetachFetches: unmounting drops the pending fetches of the
\* instance, as an AbortController in the cleanup would.
DetachFetches_aborts(log, i) ==
    SelectSeq(log, LAMBDA f : ~(f.inst = i /\ f.status = "pending"))

\* The fetches of an unmounted instance (lines 173-177): they go on, with
\* no visible element to write to.
DetachFetches(log, i) ==
    [k \in 1..Len(log) |->
        IF log[k].inst = i THEN [log[k] EXCEPT !.inst = 0] ELSE log[k]]

\* First render of a new instance (lines 59-74): the identity is computed
\* and useState's initializer calls tryRegisterComponent. Which free slot
\* of the model a new instance takes is immaterial: it takes the lowest.
Mount(i, p) ==
    /\ inst[i].phase = "unmounted"
    /\ \A j \in 1..(i - 1) : inst[j].phase # "unmounted"
    /\ LET cid == componentId(p) IN
         /\ inst' = [inst EXCEPT ![i] =
               [phase |-> "rendered", payload |-> p, cid |-> cid,
                shouldRender |-> tryRegisterResult(renderedComponents, cid),
                loading |-> TRUE, error |-> Null, root |-> EmptyRoot,
                seen |-> SeenAtMount(cid), replayed |-> FALSE]]
         /\ renderedComponents' = tryRegisterSet(renderedComponents, cid)
    /\ UNCHANGED <<fetchLog, shadowRoots, identityVars, streamVars, preloadVars>>

\* The effect (lines 76-172), run after a render that changed its deps.
RunEffect(i) ==
    /\ inst[i].phase = "rendered"
    /\ IF ~inst[i].shouldRender
       THEN /\ inst' = [inst EXCEPT ![i].phase = "mounted", ![i].loading = FALSE]
            /\ UNCHANGED <<fetchLog, shadowRoots>>
       ELSE /\ Len(fetchLog) < MaxFetches
            /\ LET sid == Len(fetchLog) + 1 IN
                 /\ inst' = [inst EXCEPT ![i].phase = "mounted",
                                         ![i].root = LoadingRoot(sid)]
                 /\ shadowRoots' = RegisterRoot(shadowRoots, ShadowRootId(sid), sid)
                 /\ fetchLog' = Append(fetchLog,
                        [cid |-> inst[i].cid, inst |-> i, status |-> "pending",
                         payload |-> inst[i].payload, result |-> NoResult,
                         inserted |-> <<>>, loadCalls |-> <<>>, errorCalls |-> <<>>])
    /\ UNCHANGED <<renderedComponents, identityVars, streamVars, preloadVars>>

\* React Strict Mode, once after an instance has mounted: the effect's
\* cleanup runs (it does nothing, lines 173-177) and the effect runs again,
\* the instance keeping its state (shouldRender) and its host element.
StrictReplay(i) ==
    /\ inst[i].phase = "mounted"
    /\ ~inst[i].replayed
    /\ inst[i].seen # "changed"
    /\ inst' = [inst EXCEPT ![i].phase = "rendered", ![i].replayed = TRUE]
    /\ UNCHANGED <<renderedComponents, fetchLog, shadowRoots, identityVars,
                   streamVars, preloadVars>>

\* The memo comparator (lines 196-208) lets a re-render through only when
\* the identity of the new payload differs; the instance keeps its state
\* (shouldRender), and the effect is due again because componentId changed.
Rerender(i, p) ==
    /\ inst[i].phase = "mounted"
    /\ componentId(p) # inst[i].cid
    /\ inst' = [inst EXCEPT ![i].phase = "rendered", ![i].payload = p,
                            ![i].cid = componentId(p), ![i].seen = "changed"]
    /\ UNCHANGED <<renderedComponents, fetchLog, shadowRoots, identityVars, streamVars, preloadVars>>

\* Unmount: the effect's cleanup does nothing (lines 173-177); the pending
\* fetches of the instance go on, detached from any visible element.
Unmount(i) ==
    /\ inst[i].phase = "mounted"
    /\ inst' = [inst EXCEPT ![i] = UnmountedInst]
    /\ fetchLog' = DetachFetches(fetchLog, i)
    /\ shadowRoots' = CleanupRegistry(shadowRoots, RootIdsOf(fetchLog, i))
    /\ UNCHANGED <<renderedComponents, identityVars, streamVars, preloadVars>>

\* The promise chain of fetch number k runs with result res (lines 124-171):
\* the fragment is inserted and onComponentLoad called, or the error box is
\* shown and onComponentError called. The callbacks are the host's and
\* return normally. An unmounted instance's root is no longer shown.
Settle(k, res) ==
    /\ k \in 1..Len(fetchLog)
    /\ fetchLog[k].status = "pending"
    /\ LET f == fetchLog[k]
           i == f.inst
           finalHtml == ReplaceAll(res.text, ShadowRootId(k))
           errorMsg == ErrorMsg(Rejection(res))
       IN  IF Fulfils(res)
           THEN /\ fetchLog' = [fetchLog EXCEPT ![k] =
                      [f EXCEPT !.status = "ok", !.result = res,
                                !.inserted = finalHtml,
                                !.loadCalls = Append(f.loadCalls, f.payload)]]
                /\ inst' = IF i = 0 THEN inst
                           ELSE [inst EXCEPT ![i].root = HtmlRoot(f.cid, k, finalHtml),
                                             ![i].loading = FALSE]
           ELSE /\ fetchLog' = [fetchLog EXCEPT ![k] =
                      [f EXCEPT !.status = "fail", !.result = res,
                                !.errorCalls = Append(f.errorCalls,
                                    [message |-> Rejection(res), payload |-> f.payload])]]
                /\ inst' = IF i = 0 THEN inst
                           ELSE [inst EXCEPT ![i].root = ErrorRoot(f.cid, k, errorMsg),
                                             ![i].loading = FALSE,
                                             ![i].error = errorMsg]
    /\ UNCHANGED <<renderedComponents, shadowRoots, identityVars, streamVars, preloadVars>>

\* The fetch resolves with a 2xx response (lines 124-155).
FetchOk(k) ==
    /\ k \in 1..Len(fetchLog)
    /\ \E res \in FetchResults(fetchLog[k].payload) : Fulfils(res) /\ Settle(k, res)

\* The fetch rejects, or answers with a non-2xx status (lines 125-127, 156-171).
FetchFail(k) ==
    /\ k \in 1..Len(fetchLog)
    /\ \E res \in FetchResults(fetchLog[k].payload) : ~Fulfils(res) /\ Settle(k, res)

\* ------------------------------------------------------------------------
\* Stream hook (useUIStream.tsx)
\* ------------------------------------------------------------------------
BaseDelay == 1000
MaxDelay == 30000
ConnectionLost == "Connection lost. Reconnecting..."

Min(a, b) == IF a <= b THEN a ELSE b

Ids == {"x", "y"}
Sessions == {"", "s1", "s2"}

\* (graph_name, component_name) as carried by an event.
FullNames == {<<"weather_app", "weather">>, <<"weather_app", "chart">>}
PartNames == {<<NoVal, "weather">>, <<"weather_app", NoVal>>, <<"", "weather">>}
NoNames == {<<NoVal, NoVal>>}

\* The props an event carries, when it carries any.
EvtProps == { <<<<"a", Num(2)>>>>, <<<<"a", Num(1)>>, <<"b", Num(1)>>>> }

UiEvent(id, names, merge, hasProps, props) ==
    [type |-> "ui", id |-> id, graph_name |-> names[1],
     component_name |-> names[2], merge |-> merge,
     hasProps |-> hasProps, props |-> props]
RemoveEvent(id) == [UiEvent(id, <<NoVal, NoVal>>, "absent", FALSE, <<>>) EXCEPT !.type = "remove-ui"]
\* A decodable message of a type the handler does not know.
OtherEvent == [UiEvent(NoVal, <<NoVal, NoVal>>, "absent", FALSE, <<>>) EXCEPT !.type = "ping"]
\* A message whose data JSON.parse rejects.
Undecodable == [UiEvent(NoVal, <<NoVal, NoVal>>, "absent", FALSE, <<>>) EXCEPT !.type = "<undecodable>"]
\* No message: the value of step.evt after a handler that takes none.
NoEvent == [UiEvent(NoVal, <<NoVal, NoVal>>, "absent", FALSE, <<>>) EXCEPT !.type = "<none>"]

WithProps(id, names, merge) ==
    {UiEvent(id, names, merge, FALSE, <<>>)}
    \cup {UiEvent(id, names, merge, TRUE, p) : p \in EvtProps}

\* The messages the server may push.
Messages ==
    UNION {WithProps(id, n, "false") : id \in Ids, n \in FullNames \cup PartNames}
    \cup UNION {WithProps(id, n, "absent") : id \in Ids, n \in {<<"weather_app", "weather">>, <<"weather_app", NoVal>>}}
    \cup UNION {WithProps(id, n, "true") : id \in Ids, n \in NoNames \cup {<<"weather_app", "weather">>}}
    \cup {RemoveEvent(id) : id \in Ids}
    \cup {OtherEvent, Undecodable}

\* evt.merge as a condition.
Truthy(merge) == merge = "true"

\* evt.props || {}
PropsOrEmpty(evt) == IF evt.hasProps THEN evt.props ELSE <<>>

\* A mutant of findIndex: the id is never found.
findIndex_none(prev, id) == 0

\* prev.findIndex(c => c.id === evt.id), 0 standing for -1.
findIndex(prev, id) ==
    IF \E i \in 1..Len(prev) : prev[i].id = id
    THEN CHOOSE i \in 1..Len(prev) :
            /\ prev[i].id = id
            /\ \A j \in 1..(i - 1) : prev[j].id # id
    ELSE 0

\* A mutant of InvalidUiEvent: only the namespace is required.
InvalidUiEvent_nsOnly(evt) == ~Truthy(evt.merge) /\ Falsy(evt.graph_name)

\* Line 58: !evt.merge && (!evt.graph_name || !evt.component_name)
InvalidUiEvent(evt) ==
    ~Truthy(evt.merge) /\ (Falsy(evt.graph_name) \/ Falsy(evt.component_name))

\* A mutant of MergedProps: existing keys win over incoming keys.
MergedProps_oldWins(oldProps, evt) == Spread(PropsOrEmpty(evt), oldProps)

\* Line 73: { ...oldProps, ...evt.props }
MergedProps(oldProps, evt) == Spread(oldProps, PropsOrEmpty(evt))

Descriptor(evt) ==
    [id |-> evt.id, graph_name |-> evt.graph_name,
     component_name |-> evt.component_name, props |-> PropsOrEmpty(evt)]

\* A mutant of UpdateComponents: a replacement keeps the old props under the
\* incoming ones.
UpdateComponents_replaceMerges(prev, evt) ==
    LET existingIdx == findIndex(prev, evt.id) IN
    IF existingIdx > 0
    THEN IF Truthy(evt.merge)
         THEN [prev EXCEPT ![existingIdx].props = MergedProps(prev[existingIdx].props, evt)]
         ELSE [prev EXCEPT ![existingIdx] =
                  [Descriptor(evt) EXCEPT !.props = MergedProps(prev[existingIdx].props, evt)]]
    ELSE Append(prev, Descriptor(evt))

\* A mutant of UpdateComponents: a new descriptor goes to the front.
UpdateComponents_prepends(prev, evt) ==
    LET existingIdx == findIndex(prev, evt.id) IN
    IF existingIdx > 0
    THEN IF Truthy(evt.merge)
         THEN [prev EXCEPT ![existingIdx].props = MergedProps(prev[existingIdx].props, evt)]
         ELSE [prev EXCEPT ![existingIdx] = Descriptor(evt)]
    ELSE <<Descriptor(evt)>> \o prev

\* The updater handed to setComponents for a 'ui' event (lines 63-103).
UpdateComponents(prev, evt) ==
    LET existingIdx == findIndex(prev, evt.id) IN
    IF existingIdx > 0
    THEN IF Truthy(evt.merge)
         THEN [prev EXCEPT ![existingIdx].props = MergedProps(prev[existingIdx].props, evt)]
         ELSE [prev EXCEPT ![existingIdx] = Descriptor(evt)]
    ELSE Append(prev, Descriptor(evt))

\* A mutant of RemoveComponent: the filter keeps what it should drop.
RemoveComponent_keepsOnly(prev, id) == SelectSeq(prev, LAMBDA c : c.id = id)

\* prev.filter(c => c.id !== evt.id) (line 106)
RemoveComponent(prev, id) == SelectSeq(prev, LAMBDA c : c.id # id)

\* A mutant of AfterMessage: a message that cannot be decoded empties the
\* collection.
AfterMessage_undecodableClears(prev, m) ==
    IF m.type = "<undecodable>" THEN <<>>
    ELSE IF m.type = "ui"
         THEN IF InvalidUiEvent(m) THEN prev ELSE UpdateComponents(prev, m)
    ELSE IF m.type = "remove-ui" THEN RemoveComponent(prev, m.id)
    ELSE prev

\* The collection after onmessage has handled message m (lines 50-111).
AfterMessage(prev, m) ==
    IF m.type = "<undecodable>" THEN prev
    ELSE IF m.type = "ui"
         THEN IF InvalidUiEvent(m) THEN prev ELSE UpdateComponents(prev, m)
    ELSE IF m.type = "remove-ui" THEN RemoveComponent(prev, m.id)
    ELSE prev

\* A mutant of ReconnectDelay: the cap is missing.
ReconnectDelay_uncapped(attempts) == BaseDelay * 2^attempts

\* Line 120: Math.min(1000 * Math.pow(2, reconnectAttempts.current), 30000)
ReconnectDelay(attempts) == Min(BaseDelay * 2^attempts, MaxDelay)

Step(op, evt, torn) == [op |-> op, evt |-> evt, torn |-> torn]

NotClosed(s) == s.readyState # "closed"

\* connect() (lines 36-41): a new EventSource, stored in eventSourceRef
\* (the last element of sources). Closed sources nothing refers to any
\* more are dropped from the model.
Connect(ss, session, torn) ==
    Append(SelectSeq(ss, NotClosed),
           [readyState |-> "connecting", session |-> session, torn |-> torn])

\* A mutant of CloseCurrent: the cleanup leaves the channel as it is.
CloseCurrent_forgotten(ss) == ss

\* eventSourceRef.current.close() (lines 135-137)
CloseCurrent(ss) ==
    IF ss = <<>> THEN ss ELSE [ss EXCEPT ![Len(ss)].readyState = "closed"]

IsNotCurrentTimer(t) == ~t.cur

\* A mutant of ClearCurrentTimer: the cleanup forgets the timer.
ClearCurrentTimer_forgotten(ts) == ts

\* clearTimeout(reconnectTimeoutRef.current) (lines 138-140): the timer
\* the ref names is cancelled if it is still pending.
ClearCurrentTimer(ts) == SelectSeq(ts, IsNotCurrentTimer)

\* What is left of a subscription after its teardown is marked as such.
MarkTorn(xs) == [i \in 1..Len(xs) |-> [xs[i] EXCEPT !.torn = TRUE]]

\* The effect's cleanup (lines 133-141).
CleanupSources(ss) == MarkTorn(CloseCurrent(ss))
CleanupTimers(ts) == MarkTorn(ClearCurrentTimer(ts))

\* The hook's effect runs for the first time (lines 30-35, 131).
EffectRun ==
    /\ hook.phase = "init"
    /\ hook' = [hook EXCEPT !.phase = "active"]
    /\ sources' = IF Falsy(hook.sessionId) THEN sources
                  ELSE Connect(sources, hook.sessionId, FALSE)
    /\ subFailed' = FALSE
    /\ step' = Step("subscribe", NoEvent, FALSE)
    /\ UNCHANGED <<rendered, queue, components, connected, error, reconnectAttempts, timers,
                   failsSinceOpen, identityVars, loaderVars, preloadVars>>

\* sessionId (or apiUrl) changes: the cleanup of the previous effect runs if
\* it returned one, then the effect runs again (lines 30-35, 131-142).
Resubscribe(s) ==
    /\ hook.phase = "active"
    /\ s # hook.sessionId
    /\ hook' = [hook EXCEPT !.sessionId = s]
    /\ LET hadCleanup == ~Falsy(hook.sessionId)
           ss == IF hadCleanup THEN CleanupSources(sources) ELSE sources
       IN  /\ sources' = IF Falsy(s) THEN ss ELSE Connect(ss, s, FALSE)
           /\ timers' = IF hadCleanup THEN CleanupTimers(timers) ELSE timers
    /\ subFailed' = FALSE
    /\ step' = Step("resubscribe", NoEvent, FALSE)
    /\ UNCHANGED <<rendered, queue, components, connected, error, reconnectAttempts,
                   failsSinceOpen, identityVars, loaderVars, preloadVars>>

\* The component using the hook unmounts: the cleanup runs (lines 133-141).
UnmountHook ==
    /\ hook.phase = "active"
    /\ hook' = [hook EXCEPT !.phase = "unmounted"]
    /\ LET hadCleanup == ~Falsy(hook.sessionId) IN
         /\ sources' = IF hadCleanup THEN CleanupSources(sources) ELSE sources
         /\ timers' = IF hadCleanup THEN CleanupTimers(timers) ELSE timers
    /\ step' = Step("teardown", NoEvent, FALSE)
    /\ UNCHANGED <<rendered, queue, components, connected, error, reconnectAttempts,
                   failsSinceOpen, subFailed, identityVars, loaderVars, preloadVars>>

\* eventSource.onopen (lines 43-48)
OnOpen(i) ==
    /\ i \in 1..Len(sources)
    /\ sources[i].readyState = "connecting"
    /\ sources' = [sources EXCEPT ![i].readyState = "open"]
    /\ connected' = TRUE
    /\ error' = Null
    /\ reconnectAttempts' = 0
    /\ failsSinceOpen' = 0
    /\ step' = Step("open", NoEvent, sources[i].torn)
    /\ UNCHANGED <<rendered, queue, components, timers, hook, subFailed, identityVars, loaderVars, preloadVars>>

\* Whether onmessage hands an updater to setComponents for message m
\* (lines 63 and 106): it does for a 'ui' event that passes line 58 and for
\* a 'remove-ui' event.
EnqueuesUpdater(m) ==
    \/ m.type = "ui" /\ ~InvalidUiEvent(m)
    \/ m.type = "remove-ui"

\* The updater of message m applied to the value React passes as prev.
ApplyUpdater(prev, m) ==
    IF m.type = "ui" THEN UpdateComponents(prev, m) ELSE RemoveComponent(prev, m.id)

\* A mutant of ProcessQueue: every updater is computed from the value of
\* the last render, as setComponents(f(components)) would; the last wins.
ProcessQueue_stale(base, q) ==
    IF q = <<>> THEN base ELSE ApplyUpdater(base, q[Len(q)])

\* React processing the queued updaters at a render: each updater receives
\* the result of the one queued before it (setComponents(prev => ...),
\* lines 63 and 106).
RECURSIVE ProcessQueue(_, _)
ProcessQueue(base, q) ==
    IF q = <<>> THEN base
    ELSE ProcessQueue(ApplyUpdater(base, Head(q)), Tail(q))

\* eventSource.onmessage (lines 50-111). deferred: React has not rendered
\* yet when the handler returns, so the updater stays queued.
HandleMessage(i, m, deferred) ==
    /\ i \in 1..Len(sources)
    /\ sources[i].readyState = "open"
    /\ components' = AfterMessage(components, m)
    /\ LET q == IF EnqueuesUpdater(m) THEN Append(queue, m) ELSE queue IN
         IF deferred
         THEN queue' = q /\ rendered' = rendered
         ELSE queue' = <<>> /\ rendered' = ProcessQueue(rendered, q)
    /\ step' = Step("message", m, sources[i].torn)
    /\ UNCHANGED <<connected, error, reconnectAttempts, sources, timers, hook,
                   failsSinceOpen, subFailed, identityVars, loaderVars, preloadVars>>

\* A mutant of OnError: the handler also clears the collection.
OnError_clears(i) ==
    /\ i \in 1..Len(sources)
    /\ NotClosed(sources[i])
    /\ reconnectAttempts < MaxAttempts
    /\ connected' = FALSE
    /\ error' = ConnectionLost
    /\ sources' = [sources EXCEPT ![i].readyState = "closed"]
    /\ reconnectAttempts' = reconnectAttempts + 1
    /\ timers' = Append([j \in 1..Len(timers) |-> [timers[j] EXCEPT !.cur = FALSE]],
                        [delay |-> ReconnectDelay(reconnectAttempts), cur |-> TRUE,
                         session |-> sources[i].session, torn |-> sources[i].torn])
    /\ failsSinceOpen' = failsSinceOpen + 1
    /\ subFailed' = TRUE
    /\ step' = Step("error", NoEvent, sources[i].torn)
    /\ components' = <<>>
    /\ UNCHANGED <<rendered, queue, hook, identityVars, loaderVars, preloadVars>>

\* eventSource.onmessage, React rendering before the next handler runs.
OnMessage(i, m) == HandleMessage(i, m, FALSE)

\* eventSource.onmessage, the render left pending.
OnMessageDeferred(i, m) ==
    /\ Len(queue) < MaxBatch
    /\ HandleMessage(i, m, TRUE)

\* React renders the component using the hook: the queued updaters are
\* processed in the order they were queued.
Render ==
    /\ queue # <<>>
    /\ rendered' = ProcessQueue(rendered, queue)
    /\ queue' = <<>>
    /\ step' = Step(IF Len(queue) > 1 THEN "render-batch" ELSE "render", NoEvent, FALSE)
    /\ UNCHANGED <<components, connected, error, reconnectAttempts, sources,
                   timers, hook, failsSinceOpen, subFailed, identityVars, loaderVars, preloadVars>>

\* A mutant of OnError: the handler schedules no reconnect.
OnError_noTimer(i) ==
    /\ i \in 1..Len(sources)
    /\ NotClosed(sources[i])
    /\ reconnectAttempts < MaxAttempts
    /\ connected' = FALSE
    /\ error' = ConnectionLost
    /\ sources' = [sources EXCEPT ![i].readyState = "closed"]
    /\ reconnectAttempts' = reconnectAttempts + 1
    /\ failsSinceOpen' = failsSinceOpen + 1
    /\ subFailed' = TRUE
    /\ step' = Step("error", NoEvent, sources[i].torn)
    /\ UNCHANGED <<rendered, queue, components, timers, hook, identityVars,
                   loaderVars, preloadVars>>

\* eventSource.onerror (lines 113-128)
OnError(i) ==
    /\ i \in 1..Len(sources)
    /\ NotClosed(sources[i])
    /\ reconnectAttempts < MaxAttempts
    /\ connected' = FALSE
    /\ error' = ConnectionLost
    /\ sources' = [sources EXCEPT ![i].readyState = "closed"]
    /\ reconnectAttempts' = reconnectAttempts + 1
    /\ timers' = Append([j \in 1..Len(timers) |-> [timers[j] EXCEPT !.cur = FALSE]],
                        [delay |-> ReconnectDelay(reconnectAttempts), cur |-> TRUE,
                         session |-> sources[i].session, torn |-> sources[i].torn])
    /\ failsSinceOpen' = failsSinceOpen + 1
    /\ subFailed' = TRUE
    /\ step' = Step("error", NoEvent, sources[i].torn)
    /\ UNCHANGED <<rendered, queue, components, hook, identityVars, loaderVars, preloadVars>>

\* The reconnect timer fires (lines 125-127): connect() of its closure.
TimerFire(j) ==
    /\ j \in 1..Len(timers)
    /\ timers' = SelectSeq([k \in 1..Len(timers) |-> [timers[k] EXCEPT !.cur = (k = j)]],
                           IsNotCurrentTimer)
    /\ sources' = Connect(sources, timers[j].session, timers[j].torn)
    /\ step' = Step("timer", NoEvent, timers[j].torn)
    /\ UNCHANGED <<rendered, queue, components, connected, error, reconnectAttempts, hook,
                   failsSinceOpen, subFailed, identityVars, loaderVars, preloadVars>>

\* ------------------------------------------------------------------------
\* Preload (preload.ts)
\* ------------------------------------------------------------------------
ApiUrls == {"http://localhost:8000", "https://api.example"}
GraphNames == {"weather_app", "proverbs_app"}
\* The arrays handed to preloadUIBundles: one or two names, repeats included.
GraphNameLists ==
    {<<g>> : g \in GraphNames} \cup {<<g, h>> : g \in GraphNames, h \in GraphNames}

\* Line 29: `${apiUrl}/ui/${graphName}/entrypoint.js`
ScriptUrl(apiUrl, graphName) == apiUrl \o "/ui/" \o graphName \o "/entrypoint.js"

\* A mutant of QuerySelector: the existing script is never found.
QuerySelector_none(scripts, scriptUrl) == FALSE

\* Line 32: document.querySelector(`script[src="${scriptUrl}"]`) is not null.
QuerySelector(scripts, scriptUrl) ==
    \E j \in 1..Len(scripts) : scripts[j].src = scriptUrl

\* preloadUIBundle in a browser (lines 29-50): document.head afterwards.
AfterPreload(scripts, apiUrl, graphName) ==
    LET scriptUrl == ScriptUrl(apiUrl, graphName) IN
    IF QuerySelector(scripts, scriptUrl) THEN scripts
    ELSE Append(scripts, [src |-> scriptUrl, state |-> "loading"])

\* graphNames.forEach(graphName => preloadUIBundle(apiUrl, graphName))
RECURSIVE AfterPreloadEach(_, _, _)
AfterPreloadEach(scripts, apiUrl, graphNames) ==
    IF graphNames = <<>> THEN scripts
    ELSE AfterPreloadEach(AfterPreload(scripts, apiUrl, Head(graphNames)),
                          apiUrl, Tail(graphNames))

\* preloadUIBundle(apiUrl, graphName) (lines 23-51)
preloadUIBundle(apiUrl, graphName) ==
    /\ Len(preloadCalls) < MaxPreloads
    /\ headScripts' = IF ~hasWindow THEN headScripts
                      ELSE AfterPreload(headScripts, apiUrl, graphName)
    /\ preloadCalls' = Append(preloadCalls, ScriptUrl(apiUrl, graphName))
    /\ UNCHANGED <<hasWindow, identityVars, loaderVars, streamVars>>

\* preloadUIBundles(apiUrl, graphNames) (lines 64-66)
preloadUIBundles(apiUrl, graphNames) ==
    /\ Len(preloadCalls) + Len(graphNames) <= MaxPreloads
    /\ headScripts' = IF ~hasWindow THEN headScripts
                      ELSE AfterPreloadEach(headScripts, apiUrl, graphNames)
    /\ preloadCalls' = preloadCalls \o
          [k \in 1..Len(graphNames) |-> ScriptUrl(apiUrl, graphNames[k])]
    /\ UNCHANGED <<hasWindow, identityVars, loaderVars, streamVars>>

\* script.onload (lines 43-45): logs.
ScriptOnLoad(j) ==
    /\ j \in 1..Len(headScripts)
    /\ headScripts[j].state = "loading"
    /\ headScripts' = [headScripts EXCEPT ![j].state = "loaded"]
    /\ UNCHANGED <<hasWindow, preloadCalls, identityVars, loaderVars, streamVars>>

\* script.onerror (lines 46-48): logs.
ScriptOnError(j) ==
    /\ j \in 1..Len(headScripts)
    /\ headScripts[j].state = "loading"
    /\ headScripts' = [headScripts EXCEPT ![j].state = "failed"]
    /\ UNCHANGED <<hasWindow, preloadCalls, identityVars, loaderVars, streamVars>>

\* ------------------------------------------------------------------------
\* Identity computation as a state machine
\* ------------------------------------------------------------------------
IdPayloads == {Payload(g, c, p) : g \in IdGraphs, c \in IdComponents, p \in AllProps}

\* Two instances render (lines 64-68): each computes its componentId.
ComputeIdentity ==
    /\ idOut1 = NoId
    /\ idOut1' = componentId(idIn1)
    /\ idOut2' = componentId(idIn2)
    /\ UNCHANGED <<idIn1, idIn2, loaderVars, streamVars, preloadVars>>

\* ------------------------------------------------------------------------
\* Initial states and specifications
\* ------------------------------------------------------------------------
IdentityIdle ==
    /\ idIn1 = DummyPayload
    /\ idIn2 = DummyPayload
    /\ idOut1 = NoId
    /\ idOut2 = NoId

IdentityInit ==
    /\ idIn1 \in IdPayloads
    /\ idIn2 \in IdPayloads
    /\ idOut1 = NoId
    /\ idOut2 = NoId

LoaderInit ==
    /\ renderedComponents = {}
    /\ inst = [i \in Instances |-> UnmountedInst]
    /\ fetchLog = <<>>
    /\ shadowRoots = {}

StreamInitFor(sessions) ==
    /\ components = <<>>
    /\ connected = FALSE
    /\ error = Null
    /\ reconnectAttempts = 0
    /\ sources = <<>>
    /\ timers = <<>>
    /\ hook \in [phase : {"init"}, sessionId : sessions]
    /\ failsSinceOpen = 0
    /\ subFailed = FALSE
    /\ step = Step("render", NoEvent, FALSE)
    /\ rendered = <<>>
    /\ queue = <<>>

PreloadIdle ==
    /\ hasWindow = TRUE
    /\ headScripts = <<>>
    /\ preloadCalls = <<>>

InitIdentity == IdentityInit /\ LoaderInit /\ StreamInitFor({"s1"}) /\ PreloadIdle
NextIdentity == ComputeIdentity
SpecIdentity == InitIdentity /\ [][NextIdentity]_vars

InitLoader == IdentityIdle /\ LoaderInit /\ StreamInitFor({"s1"}) /\ PreloadIdle
NextLoader ==
    \/ \E i \in Instances, p \in LoaderPayloads : Mount(i, p)
    \/ \E i \in Instances : RunEffect(i)
    \/ \E i \in Instances, p \in LoaderPayloads : Rerender(i, p)
    \/ \E i \in Instances : Unmount(i)
    \/ \E k \in 1..MaxFetches : FetchOk(k)
    \/ \E k \in 1..MaxFetches : FetchFail(k)
SpecLoader == InitLoader /\ [][NextLoader]_vars

\* The loader under React Strict Mode: every effect may be replayed once.
InitStrict == InitLoader
NextStrict ==
    \/ NextLoader
    \/ \E i \in Instances : StrictReplay(i)
SpecStrict == InitStrict /\ [][NextStrict]_vars

InitStream == IdentityIdle /\ LoaderInit /\ StreamInitFor({"", "s1"}) /\ PreloadIdle
NextStream ==
    \/ EffectRun
    \/ \E s \in Sessions : Resubscribe(s)
    \/ UnmountHook
    \/ \E i \in 1..Len(sources) : OnOpen(i)
    \/ \E i \in 1..Len(sources), m \in Messages : OnMessage(i, m)
    \/ \E i \in 1..Len(sources) : OnError(i)
    \/ \E j \in 1..Len(timers) : TimerFire(j)
SpecStream == InitStream /\ [][NextStream]_vars

\* The stream hook with the browser's timers: a pending setTimeout callback
\* that is not cleared is run (lines 125-127).
SpecStreamFair ==
    SpecStream /\ WF_vars(\E j \in 1..Len(timers) : TimerFire(j))

\* The messages of the batching specification: an append, a replacement, a
\* merge and a removal per id, a dropped update and an undecodable message.
BatchMessages ==
    {UiEvent(id, <<"weather_app", "weather">>, "false", TRUE, <<<<"a", Num(2)>>>>) : id \in Ids}
    \cup {UiEvent(id, <<"weather_app", "chart">>, "absent", FALSE, <<>>) : id \in Ids}
    \cup {UiEvent(id, <<NoVal, NoVal>>, "true", TRUE, <<<<"a", Num(1)>>, <<"b", Num(1)>>>>) : id \in Ids}
    \cup {RemoveEvent(id) : id \in Ids}
    \cup {UiEvent("x", <<"weather_app", NoVal>>, "false", TRUE, <<<<"a", Num(2)>>>>), Undecodable}

InitBatch == IdentityIdle /\ LoaderInit /\ StreamInitFor({"s1"}) /\ PreloadIdle
NextBatch ==
    \/ EffectRun
    \/ \E i \in 1..Len(sources) : OnOpen(i)
    \/ \E i \in 1..Len(sources), m \in BatchMessages : OnMessageDeferred(i, m)
    \/ Render
SpecBatch == InitBatch /\ [][NextBatch]_vars

PreloadInit ==
    /\ hasWindow \in BOOLEAN
    /\ headScripts = <<>>
    /\ preloadCalls = <<>>

InitPreload == IdentityIdle /\ LoaderInit /\ StreamInitFor({"s1"}) /\ PreloadInit
NextPreload ==
    \/ \E a \in ApiUrls, g \in GraphNames : preloadUIBundle(a, g)
    \/ \E a \in ApiUrls, gs \in GraphNameLists : preloadUIBundles(a, gs)
    \/ \E j \in 1..Len(headScripts) : ScriptOnLoad(j)
    \/ \E j \in 1..Len(headScripts) : ScriptOnError(j)
SpecPreload == InitPreload /\ [][NextPreload]_vars

Init == InitLoader
Next == NextLoader
Spec == SpecLoader

\* ------------------------------------------------------------------------
\* Claims about the loader (checked under SpecLoader)
\* ------------------------------------------------------------------------
Outcome(i) == [kind |-> inst[i].root.kind, of |-> inst[i].root.of]
EffectsDoneFor(cid) ==
    \A i \in Instances : inst[i].cid = cid => inst[i].phase # "rendered"

\* C1: the instances mounted with one identity before the first fetch for
\* it settled cause exactly one fetch, and once it has settled they all
\* show the same outcome (the same fragment, or the same error).
C1_OneFetchSameOutcome ==
    \A cid \in renderedComponents :
        LET G == {i \in Instances : /\ inst[i].phase = "mounted"
                                    /\ inst[i].cid = cid
                                    /\ inst[i].seen = "unsettled"}
        IN  (G # {} /\ EffectsDoneFor(cid) /\ FetchesOf(cid) # {} /\ PendingOf(cid) = {})
            => /\ FetchCount(cid) = 1
               /\ \A i, j \in G : /\ Outcome(i) = Outcome(j)
                                  /\ Outcome(i).kind \in {"html", "error"}

\* C2: an identity that has been registered is fetched at most once,
\* whatever mounts, unmounts and re-renders follow.
C2_NoSecondFetch ==
    \A cid \in renderedComponents : FetchCount(cid) <= 1

\* C3: an instance mounted after the fetch for its identity resolved shows
\* that fragment, also when it is a re-added component.
C3_LaterInstanceShowsFragment ==
    \A i \in Instances :
        (inst[i].phase = "mounted" /\ inst[i].seen = "ok")
        => (inst[i].root.kind = "html" /\ inst[i].root.of = inst[i].cid)

\* C4: a failed fetch is not cached: once every fetch for an identity has
\* failed the identity is no longer registered, and an instance mounted
\* then fetches anew.
C4_FailureNotCached ==
    /\ \A cid \in renderedComponents :
          ~(FetchesOf(cid) # {} /\ PendingOf(cid) = {} /\ OkOf(cid) = {})
    /\ \A i \in Instances :
          (inst[i].phase = "mounted" /\ inst[i].seen = "failed") => inst[i].shouldRender

\* C5: an instance whose identity changed in place resolves the new
\* identity: the new identity is registered, and once its fetches have
\* settled the instance shows the outcome of the new identity.
C5_ChangedIdentityResolved ==
    \A i \in Instances :
        (inst[i].phase = "mounted" /\ inst[i].seen = "changed")
        => /\ inst[i].cid \in renderedComponents
           /\ (\A k \in 1..Len(fetchLog) : fetchLog[k].status # "pending")
                 => (inst[i].root.of = inst[i].cid /\ inst[i].root.kind \in {"html", "error"})

\* ------------------------------------------------------------------------
\* Claims about the identity (checked under SpecIdentity)
\* ------------------------------------------------------------------------
SameNames == /\ idIn1.graph_name = idIn2.graph_name
             /\ idIn1.component_name = idIn2.component_name

DelaySequence == <<1000, 2000, 4000, 8000, 16000>>
ExpectedDelay(k) == IF k < Len(DelaySequence) THEN DelaySequence[k + 1] ELSE 30000
CurrentTimers == {j \in 1..Len(timers) : timers[j].cur}

\* C7: the k-th channel failure since the last successful open (k from 0)
\* schedules the reconnect after 1000, 2000, 4000, 8000, 16000 ms, then
\* 30000 ms for every later one.
C7_BackoffSequence ==
    step.op = "error"
    => /\ CurrentTimers # {}
       /\ \A j \in CurrentTimers : timers[j].delay = ExpectedDelay(failsSinceOpen - 1)

C7_Witness ==
    /\ step.op = "error"
    /\ failsSinceOpen = 6
    /\ \E j \in CurrentTimers : timers[j].delay = 30000

\* Nothing of a torn-down subscription is left that could act.
TornQuiet ==
    /\ \A i \in 1..Len(sources) : sources[i].torn => sources[i].readyState = "closed"
    /\ \A j \in 1..Len(timers) : ~timers[j].torn
\* A step that changes what the hook reports is taken by a handler of a
\* subscription that has not been torn down.
TornSilent ==
    (<<connected, error, reconnectAttempts, components>>'
        # <<connected, error, reconnectAttempts, components>>)
    => ~step'.torn
\* After the last teardown nothing changes at all.
UnmountedFrozen ==
    hook.phase = "unmounted"
    => UNCHANGED <<components, connected, error, reconnectAttempts, sources, timers>>

\* C8: after teardown the channel is closed, no reconnect timer is
\* pending, the torn-down subscription opens no channel, and connected,
\* error, the attempt counter and the collection do not change again.
C8_TeardownIsFinal ==
    /\ []TornQuiet
    /\ [][TornSilent /\ UnmountedFrozen]_vars

C8_Witness ==
    /\ hook.phase = "unmounted"
    /\ sources # <<>>
    /\ sources[Len(sources)].torn
    /\ reconnectAttempts > 0
    /\ timers = <<>>
    /\ error = ConnectionLost

IndexOfId(cs, id) == CHOOSE i \in 1..Len(cs) : cs[i].id = id
HasId(cs, id) == \E i \in 1..Len(cs) : cs[i].id = id

MergeStep ==
    /\ step'.op = "message"
    /\ step'.evt.type = "ui"
    /\ step'.evt.merge = "true"
    /\ HasId(components, step'.evt.id)

MergeEffect ==
    LET e == step'.evt
        x == IndexOfId(components, e.id)
        old == components[x].props
        new == components'[x].props
        inc == IF e.hasProps THEN e.props ELSE <<>>
    IN  /\ Len(components') = Len(components)
        /\ \A i \in 1..Len(components) : i # x => components'[i] = components[i]
        /\ components'[x].id = components[x].id
        /\ components'[x].graph_name = components[x].graph_name
        /\ components'[x].component_name = components[x].component_name
        /\ IsProps(new)
        /\ \A k \in Keys : HasKey(new, k) <=> (HasKey(old, k) \/ HasKey(inc, k))
        /\ \A k \in Keys : HasKey(new, k) =>
              Get(new, k) = IF HasKey(inc, k) THEN Get(inc, k) ELSE Get(old, k)

\* C9: a merge update for an id in the collection changes only that
\* descriptor's props, to the old props overridden by the incoming ones;
\* its id, names and position and all other descriptors are unchanged.
C9_MergeExisting == [][MergeStep => MergeEffect]_vars

C9_Witness ==
    /\ step.op = "message"
    /\ step.evt.merge = "true"
    /\ step.evt.hasProps
    /\ step.evt.props = <<<<"a", Num(2)>>>>
    /\ Len(components) = 2
    /\ components[2].id = step.evt.id
    /\ components[2].props = <<<<"a", Num(2)>>, <<"b", Num(1)>>>>

LacksName(x) == x \in {NoVal, ""}
MalformedStep ==
    /\ step'.op = "message"
    /\ step'.evt.type = "ui"
    /\ step'.evt.merge \in {"false", "absent"}
    /\ (LacksName(step'.evt.graph_name) \/ LacksName(step'.evt.component_name))

\* C10: a non-merge update that lacks namespace or component is dropped:
\* the collection is unchanged, whether or not its id is present.
C10_MalformedDropped == [][MalformedStep => components' = components]_vars

C10_Witness ==
    /\ step.op = "message"
    /\ step.evt.type = "ui"
    /\ step.evt.merge = "false"
    /\ step.evt.graph_name = "weather_app"
    /\ step.evt.component_name = NoVal
    /\ step.evt.hasProps
    /\ Len(components) = 1
    /\ components[1].id = step.evt.id
    /\ components[1].props # step.evt.props

RemoveStep ==
    /\ step'.op = "message"
    /\ step'.evt.type = "remove-ui"
RemoveEffect ==
    LET id == step'.evt.id IN
    IF ~HasId(components, id)
    THEN components' = components
    ELSE LET x == IndexOfId(components, id) IN
         /\ Len(components') = Len(components) - 1
         /\ \A i \in 1..(x - 1) : components'[i] = components[i]
         /\ \A i \in (x + 1)..Len(components) : components'[i - 1] = components[i]

UniqueIds(cs) ==
    \A i, j \in 1..Len(cs) : i # j => cs[i].id # cs[j].id
\* Two descriptors present before and after a step keep their order.
OrderKept ==
    \A i, j \in 1..Len(components), k, l \in 1..Len(components') :
        (/\ components'[k].id = components[i].id
         /\ components'[l].id = components[j].id
         /\ i < j) => k < l

\* C12: no two descriptors of the collection ever share an id, and every
\* step keeps the relative order of the descriptors that survive it.
C12_UniqueAndStable ==
    /\ []UniqueIds(components)
    /\ [][OrderKept]_vars

C12_Witness ==
    /\ step.op = "message"
    /\ step.evt.type = "ui"
    /\ step.evt.merge = "false"
    /\ step.evt.component_name = "chart"
    /\ Len(components) = 2
    /\ components[1].id = step.evt.id
    /\ components[1].component_name = "chart"
    /\ components[2].component_name = "weather"

ConnectionStep == step'.op \in {"error", "timer", "open"}
ChangingStep ==
    /\ step'.op = "message"
    /\ step'.evt.type \in {"ui", "remove-ui"}

\* C15: a channel error, a reconnect timer firing and a channel (re-)open
\* leave the collection unchanged; a step that changes the collection is
\* the handling of an update or a remove event.
C15_ConnectionFrame ==
    [][/\ ConnectionStep => components' = components
       /\ components' # components => ChangingStep]_vars

C15_Witness ==
    /\ step.op = "timer"
    /\ ~connected
    /\ error = ConnectionLost
    /\ Len(components) = 2

ReplaceStep ==
    /\ step'.op = "message"
    /\ step'.evt.type = "ui"
    /\ step'.evt.merge \in {"false", "absent"}
    /\ ~LacksName(step'.evt.graph_name)
    /\ ~LacksName(step'.evt.component_name)
    /\ HasId(components, step'.evt.id)
ReplaceEffect ==
    LET e == step'.evt
        x == IndexOfId(components, e.id)
    IN  /\ Len(components') = Len(components)
        /\ \A i \in 1..Len(components) : i # x => components'[i] = components[i]
        /\ components'[x].id = e.id
        /\ components'[x].graph_name = e.graph_name
        /\ components'[x].component_name = e.component_name
        /\ components'[x].props = IF e.hasProps THEN e.props ELSE <<>>

\* C17: a non-merge update with namespace and component for an id in the
\* collection replaces that descriptor at its position by the event's
\* names and exactly the event's props (none when the event has none);
\* the length and every other descriptor are unchanged.
C17_ReplaceWhole == [][ReplaceStep => ReplaceEffect]_vars

C17_Witness ==
    /\ step.op = "message"
    /\ step.evt.type = "ui"
    /\ step.evt.merge = "absent"
    /\ ~step.evt.hasProps
    /\ Len(components) = 2
    /\ components[1].id = step.evt.id
    /\ components[1].props = <<>>
    /\ components[2].props # <<>>

AppendStep ==
    /\ step'.op = "message"
    /\ step'.evt.type = "ui"
    /\ \/ step'.evt.merge = "true"
       \/ ~LacksName(step'.evt.graph_name) /\ ~LacksName(step'.evt.component_name)
    /\ ~HasId(components, step'.evt.id)
AppendEffect ==
    LET e == step'.evt IN
    /\ Len(components') = Len(components) + 1
    /\ \A i \in 1..Len(components) : components'[i] = components[i]
    /\ components'[Len(components')] =
          [id |-> e.id, graph_name |-> e.graph_name,
           component_name |-> e.component_name,
           props |-> IF e.hasProps THEN e.props ELSE <<>>]

C19_AllNamed ==
    \A i \in 1..Len(components) :
        /\ ~LacksName(components[i].graph_name)
        /\ ~LacksName(components[i].component_name)

\* C20: the collection the hook returns once React has processed every
\* queued updater is the collection obtained by applying the received
\* events one at a time in the order they arrived, also when several
\* messages were handled before React rendered.
C20_AppliedInOrder == queue = <<>> => rendered = components

C20_Witness ==
    /\ step.op = "render-batch"
    /\ Len(rendered) = 1
    /\ rendered[1].id = "y"
    /\ rendered[1].component_name = "chart"
    /\ rendered[1].props = <<<<"a", Num(1)>>, <<"b", Num(1)>>>>

\* The elements of s without those that repeat an earlier element.
RECURSIVE FirstOccurrences(_)
FirstOccurrences(s) ==
    IF s = <<>> THEN <<>>
    ELSE LET front == SubSeq(s, 1, Len(s) - 1)
             last == s[Len(s)]
         IN  IF \E k \in 1..Len(front) : front[k] = last
             THEN FirstOccurrences(front)
             ELSE Append(FirstOccurrences(front), last)
ScriptSources == [j \in 1..Len(headScripts) |-> headScripts[j].src]
\* In a browser the injected scripts are the URLs preloaded so far, each
\* once, in the order of their first call; on the server there are none.
ScriptsAreFirstCalls ==
    ScriptSources = IF hasWindow THEN FirstOccurrences(preloadCalls) ELSE <<>>
\* A script's load or failure changes nothing but that script's own status.
LoadOutcomeSilent ==
    (preloadCalls' = preloadCalls)
    => /\ ScriptSources' = ScriptSources
       /\ UNCHANGED <<hasWindow, loaderVars, streamVars>>

\* C16: preload is idempotent: whatever calls were made, one at a time or
\* as a list, each (apiBaseUrl, namespace) has at most one script injected,
\* the scripts being those of the first call for each URL in call order
\* (so a list behaves as its elements preloaded in turn); the load or
\* failure of a script changes no state of the loader or the reconciler.
C16_PreloadIdempotent ==
    /\ []ScriptsAreFirstCalls
    /\ [][LoadOutcomeSilent]_vars

C16_Witness ==
    /\ hasWindow
    /\ Len(preloadCalls) = 3
    /\ preloadCalls[1] = preloadCalls[3]
    /\ preloadCalls[2] # preloadCalls[1]
    /\ Len(headScripts) = 2
    /\ headScripts[1].src = preloadCalls[1]
    /\ headScripts[1].state = "failed"

IsSuccess(res) == res.kind = "response" /\ res.status >= 200 /\ res.status < 300
\* The text with the boundary id at every place of the placeholder.
Substituted(text, out, id) ==
    /\ Len(out) = Len(text)
    /\ \A j \in 1..Len(text) :
          out[j] = IF text[j] = "{{shadowRootId}}" THEN id ELSE text[j]
ShownBy(k) == {i \in Instances : inst[i].root.sid = k /\ inst[i].root.kind # "loading"}

FailureMessage(res) ==
    IF res.kind = "error" THEN res.message
    ELSE "HTTP " \o ToString(res.status) \o ": " \o res.statusText
IsFailure(res) == res.kind = "error" \/ (res.kind = "response" /\ ~IsSuccess(res))
FailedFetch(k) == IsFailure(fetchLog[k].result)
\* Every failed fetch has had the error callback called once, with the
\* error and the payload of the effect run, and the success callback not
\* at all; an instance showing the fetch's outcome shows the error box.
FailureReported ==
    \A k \in 1..Len(fetchLog) :
        FailedFetch(k) =>
            /\ fetchLog[k].errorCalls =
                  <<[message |-> FailureMessage(fetchLog[k].result),
                     payload |-> fetchLog[k].payload]>>
            /\ fetchLog[k].loadCalls = <<>>
            /\ fetchLog[k].inserted = <<>>
            /\ \A i \in ShownBy(k) :
                  /\ inst[i].root.kind = "error"
                  /\ inst[i].root.html[2] = FailureMessage(fetchLog[k].result)
                  /\ inst[i].error = FailureMessage(fetchLog[k].result)
\* The step in which a fetch fails issues no fetch and schedules no effect
\* run, and while the instance keeps its identity no further fetch is
\* issued for it.
IssuedBy(i) == {k \in 1..Len(fetchLog) : fetchLog[k].inst = i}
FailureStep == \E k \in 1..Len(fetchLog) : ~FailedFetch(k) /\ FailedFetch(k)'
NoRetry ==
    /\ FailureStep =>
          /\ Len(fetchLog') = Len(fetchLog)
          /\ \A i \in Instances : inst'[i].phase = inst[i].phase
    /\ \A i \in Instances :
          (inst[i].phase = "mounted" /\ inst[i].error # Null /\ inst'[i].cid = inst[i].cid)
          => IssuedBy(i)' = IssuedBy(i)

\* C14: when a fetch fails, by a network failure or a non-2xx response
\* (error 'HTTP <status>: <statusText>'), the error callback is called once
\* with the error and the original payload, the boundary shows the error
\* box, the success callback is not called, and no further fetch is issued
\* for the instance of its own accord.
C14_FailurePath ==
    /\ []FailureReported
    /\ [][NoRetry]_vars

C14_Witness ==
    /\ Len(fetchLog) = 2
    /\ fetchLog[1].result.status = 500
    /\ fetchLog[1].errorCalls # <<>>
    /\ fetchLog[1].errorCalls[1].message = "HTTP 500: Internal Server Error"
    /\ fetchLog[2].result.kind = "error"
    /\ inst[1].root.kind = "error"
    /\ inst[1].root.sid = 1
    /\ inst[2].phase = "mounted"

UndecodableStep ==
    /\ step'.op = "message"
    /\ step'.evt.type = "<undecodable>"
OpenSources == {i \in 1..Len(sources) : sources[i].readyState = "open"}

\* C21: handling a message that cannot be decoded changes neither the
\* collection nor connected, error or the attempt counter; the channels
\* are as before, the receiving one still open, and no reconnect timer is
\* added, so the channel goes on delivering messages.
C21_UndecodableDropped ==
    [][UndecodableStep =>
          /\ UNCHANGED <<components, connected, error, reconnectAttempts,
                         sources, timers>>
          /\ OpenSources' # {}]_vars

C21_Witness ==
    /\ step.op = "message"
    /\ step.evt.type = "<undecodable>"
    /\ connected
    /\ error = Null
    /\ timers = <<>>
    /\ OpenSources # {}
    /\ Len(components) = 2

\* The delay of the timer the reconnect ref names.
CurrentDelays == {timers[j].delay : j \in {k \in 1..Len(timers) : timers[k].cur}}

\* C26: the first channel failure of a subscription schedules its
\* reconnect after 1000 ms, whatever the subscription before it went
\* through.
C26_BackoffRestarts ==
    [][(step'.op = "error" /\ ~step'.torn /\ ~subFailed) => CurrentDelays' = {1000}]_vars

LiveSources == {i \in 1..Len(sources) : NotClosed(sources[i])}
AtMostOneEach ==
    /\ Cardinality(LiveSources) <= 1
    /\ Len(timers) <= 1
    /\ ~(LiveSources # {} /\ timers # <<>>)
\* A channel that was not there before comes from the effect or a timer.
OpenedByConnect ==
    (Cardinality(LiveSources') > Cardinality(LiveSources))
    => step'.op \in {"subscribe", "resubscribe", "timer"}

\* C27: there is never more than one channel that is not closed, never
\* more than one pending reconnect timer, and never a pending timer
\* together with a channel that is not closed; a new channel is opened
\* only by the effect's connect or by a timer firing.
C27_OneChannelOrTimer ==
    /\ []AtMostOneEach
    /\ [][OpenedByConnect]_vars

C27_Witness ==
    /\ step.op = "timer"
    /\ Cardinality(LiveSources) = 1
    /\ timers = <<>>
    /\ reconnectAttempts = 2
    /\ Len(components) = 1

\* C28: connected is TRUE only while a channel of the current session is
\* open, and error is then cleared.
C28_ConnectedMeansOpen ==
    connected =>
        /\ \E i \in OpenSources :
              /\ sources[i].session = hook.sessionId
              /\ ~sources[i].torn
        /\ hook.phase = "active"
        /\ error = Null

\* The state the error handler leaves: the channel closed, connected
\* false, the error message set and the reconnect timer pending.
AfterChannelError ==
    step.op = "error" =>
        /\ LiveSources = {}
        /\ ~connected
        /\ error = ConnectionLost
        /\ Len(timers) = 1
        /\ timers[1].cur
\* The timer has fired and its connect() has made a new channel, or the
\* subscription was torn down first.
Reconnecting ==
    \/ step.op = "timer" /\ LiveSources # {}
    \/ step.op \in {"resubscribe", "teardown"}

\* C22: every channel error, while connected or while connecting, leaves
\* the channel closed, connected false, the error set and a reconnect
\* timer pending; a pending reconnect timer leads to a new connection
\* attempt unless the subscription is torn down first.
C22_FailureNotTerminal ==
    /\ []AfterChannelError
    /\ (timers # <<>>) ~> Reconnecting

C22_Witness ==
    /\ step.op = "timer"
    /\ LiveSources # {}
    /\ reconnectAttempts = 2
    /\ failsSinceOpen = 2
    /\ error = ConnectionLost
    /\ ~connected

RegisteredIds == {e.id : e \in shadowRoots}
Detached(k) == fetchLog[k].inst = 0

\* C23: the shadow root of every effect run that issued a fetch is in the
\* registry under the id generated by that run, from the moment the fetch
\* is issued: while it is pending, when it has settled, and after the
\* instance has unmounted; and no entry is ever removed.
C23_RegistryKeepsRoot ==
    /\ [](\A k \in 1..Len(fetchLog) :
             Cardinality({e \in shadowRoots : e.id = ShadowRootId(k) /\ e.root = k}) = 1)
    /\ [][shadowRoots \subseteq shadowRoots']_vars

C23_Witness ==
    /\ Len(fetchLog) = 2
    /\ Detached(1)
    /\ fetchLog[1].status = "ok"
    /\ fetchLog[2].status = "pending"
    /\ "sidd-shadow-1" \in RegisteredIds
    /\ "sidd-shadow-2" \in RegisteredIds
    /\ \A i \in Instances : inst[i].phase = "unmounted"

\* Unmounting cancels nothing: the log keeps every fetch in its state.
UnmountKeepsFetches ==
    (\E i \in Instances : inst[i].phase = "mounted" /\ inst'[i].phase = "unmounted")
    => /\ Len(fetchLog') = Len(fetchLog)
       /\ \A k \in 1..Len(fetchLog) : fetchLog'[k].status = fetchLog[k].status
\* The settling of a detached fetch touches no instance.
DetachedSettlesQuietly ==
    (\E k \in 1..Len(fetchLog) :
        Detached(k) /\ fetchLog[k].status = "pending" /\ fetchLog'[k].status # "pending")
    => inst' = inst
\* An identity once registered stays registered, so that no instance
\* mounted with it later fetches it.
StaysRegistered ==
    /\ renderedComponents \subseteq renderedComponents'
    /\ \A i \in Instances :
          (inst[i].phase = "unmounted" /\ inst'[i].phase = "rendered"
              /\ inst'[i].cid \in renderedComponents)
          => ~inst'[i].shouldRender

AllSettledOk(cid) == FetchesOf(cid) # {} /\ FetchesOf(cid) = OkOf(cid)
ShowsContent(i) == inst[i].root.kind = "html" /\ inst[i].root.of = inst[i].cid
\* An instance whose effect was replayed with its state kept.
Replayed(i) == inst[i].phase = "mounted" /\ inst[i].replayed
\* The effect of a fresh instance runs for the first time, for an identity
\* whose fetches have all resolved and were issued by components that
\* have unmounted, no other instance having that identity.
RemountEffectStep(i) ==
    /\ inst[i].phase = "rendered"
    /\ inst'[i].phase = "mounted"
    /\ ~inst[i].replayed
    /\ inst[i].seen # "changed"
    /\ AllSettledOk(inst[i].cid)
    /\ \A k \in FetchesOf(inst[i].cid) : Detached(k)
    /\ \A j \in Instances \ {i} : inst[j].cid # inst[i].cid
ReplayFetchesOnce ==
    \A i \in Instances : Replayed(i) => FetchCount(inst[i].cid) = 1
RemountShowsContent ==
    \A i \in Instances : RemountEffectStep(i) => ShowsContent(i)'

\* C25: an unmount followed by a remount with the same identity makes no
\* duplicate and loses no content: when an instance's effect is replayed
\* with its state kept the identity has been fetched once, and a fresh
\* instance mounted for an identity fetched by a component that has
\* unmounted shows the content once its effect has run.
C25_RemountNoDuplicate ==
    /\ []ReplayFetchesOnce
    /\ [][RemountShowsContent]_vars

====
